---- MODULE Spec2Model ----
(***************************************************************************)
(* A model of ch (src/main.go): the comma segmenter processSubcommands,    *)
(* the prefix dispatcher executeSubcommand, the five entry producers, the  *)
(* renderer generateMarkdown and the run of main around them.              *)
(*                                                                         *)
(* A Go string is a sequence of one-character strings, so that trimming,   *)
(* prefix and suffix tests and joining are computed as the code computes   *)
(* them.  The fixed text of an error message is kept as one chunk.         *)
(***************************************************************************)
EXTENDS Integers, Sequences, FiniteSets, TLC

\* ------------------------------------------------------------------------
\* Bounds
\* ------------------------------------------------------------------------

\* longest token list built from CoreTokens; lists over all Tokens are one shorter
MaxArgs == 3

\* longest entry sequence handed to generateMarkdown directly
MaxEntries == 3

\* how many times a file is rewritten by another process during a run
MaxModifications == 1

\* ------------------------------------------------------------------------
\* strings package
\* ------------------------------------------------------------------------

IsSpace(c) == c \in {" ", "\t", "\n", "\r"}

RECURSIVE TrimLeftSpace(_)
TrimLeftSpace(s) ==
    IF s # <<>> /\ IsSpace(Head(s)) THEN TrimLeftSpace(Tail(s)) ELSE s

RECURSIVE TrimRightSpace(_)
TrimRightSpace(s) ==
    IF s # <<>> /\ IsSpace(s[Len(s)])
    THEN TrimRightSpace(SubSeq(s, 1, Len(s) - 1))
    ELSE s

TrimSpace(s) == TrimRightSpace(TrimLeftSpace(s))

HasPrefix(s, prefix) ==
    /\ Len(prefix) <= Len(s)
    /\ SubSeq(s, 1, Len(prefix)) = prefix

HasSuffix(s, suffix) ==
    /\ Len(suffix) <= Len(s)
    /\ SubSeq(s, Len(s) - Len(suffix) + 1, Len(s)) = suffix

\* mutant: every trailing occurrence of the suffix is removed
RECURSIVE TrimSuffixRepeated(_, _)
TrimSuffixRepeated(s, suffix) ==
    IF suffix # <<>> /\ HasSuffix(s, suffix)
    THEN TrimSuffixRepeated(SubSeq(s, 1, Len(s) - Len(suffix)), suffix)
    ELSE s

TrimSuffix(s, suffix) ==
    IF HasSuffix(s, suffix) THEN SubSeq(s, 1, Len(s) - Len(suffix)) ELSE s

Contains(s, c) == \E i \in 1..Len(s) : s[i] = c

\* index of the first occurrence of c in s, 0 when there is none
IndexOf(s, c) ==
    IF Contains(s, c)
    THEN CHOOSE i \in 1..Len(s) : s[i] = c /\ \A j \in 1..(i - 1) : s[j] # c
    ELSE 0

\* strings.SplitN(s, sep, 2)
SplitN2(s, sep) ==
    IF Contains(s, sep)
    THEN << SubSeq(s, 1, IndexOf(s, sep) - 1),
            SubSeq(s, IndexOf(s, sep) + 1, Len(s)) >>
    ELSE << s >>

RECURSIVE Join(_, _)
Join(elems, sep) ==
    IF elems = <<>> THEN <<>>
    ELSE IF Len(elems) = 1 THEN elems[1]
    ELSE elems[1] \o sep \o Join(Tail(elems), sep)

\* fmt's %s / %v of a []string: [a b c]
FmtSlice(elems) == <<"[">> \o Join(elems, <<" ">>) \o <<"]">>

\* ------------------------------------------------------------------------
\* Tokens of the command line
\* ------------------------------------------------------------------------

COMMA == <<",">>
F1 == <<"f", "1">>
F2 == <<"f", "2">>
NF == <<"n", "f">>
DIR == <<"d">>
REMOTE == <<"h", ":", "p">>
REMOTE2 == <<"h", ":", "p", ":", "q">>
OUTFILE == <<"o", "u", "t">>

\* tokens combined exhaustively up to MaxArgs
CoreTokens ==
    { <<"s", "a", "y">>, <<"a">>, COMMA, <<"a", ",">>, <<" ", "a", " ">>,
      <<"a", ",", " ">>, <<"x">>, <<" ">>, <<"e", "x", "e", "c">>, <<"a", ",", "b">> }

Tokens ==
    CoreTokens \cup
    { <<"s">>, <<"a", "t">>, <<"a", "t", "t", "a", "c", "h">>,
      <<"i", "n", "s", "e", "r", "t">>, <<"p", "a", "s", "t", "e">>,
      <<"S", "a", "y">>, <<"s", "a", "y", "x">>, <<>>,
      <<",", ",">>, F1 \o COMMA,
      F1, F2, NF, DIR, REMOTE }

RECURSIVE ListsOf(_, _)
ListsOf(S, n) ==
    IF n = 0 THEN { <<>> }
    ELSE LET shorter == ListsOf(S, n - 1)
         IN  shorter \cup { Append(l, t) : l \in { m \in shorter : Len(m) = n - 1 }, t \in S }

\* argument lists of the repository's tests and of the documentation
TestArgLists ==
    { << <<"s", "a", "y">>, <<"M", "1">>, COMMA, <<"a", "t", "t", "a", "c", "h">>, F1 \o COMMA,
         <<"i", "n", "s", "e", "r", "t">>, F2, COMMA, <<"e", "x", "e", "c">>, <<"e">>, <<"h", "i", ",">>,
         <<"s", "a", "y">>, <<"M", "2">> >>,
      << <<"a", "t", "t", "a", "c", "h">>, F1, DIR \o COMMA, <<"a", "t", "t", "a", "c", "h">>, F2 >>,
      << <<"a", "t", "t", "a", "c", "h">>, F1, COMMA, <<"a", "t", "t", "a", "c", "h">>, F2 >>,
      << <<"s", "a", "y">>, <<"a">>, COMMA, COMMA, <<"s", "a", "y">>, <<"b">> >>,
      << <<"s", "a", "y">>, <<"a">>, COMMA, <<"x">>, COMMA, <<"s", "a", "y">>, <<"b">> >>,
      << <<"s", "a", "y">>, <<"a", ",">>, <<"b">> >>,
      << <<"s", "a", "y">>, <<"H", " ", "w">> >>,
      << <<"s", "a", "y">>, <<"H">>, <<"w">> >>,
      << <<"a", "t", "t", "a", "c", "h">>, F1, NF >>,
      << <<"a", "t", "t", "a", "c", "h">>, F1, F1 >>,
      << <<"a", "t", "t", "a", "c", "h">>, DIR, F1 >>,
      << <<"a", "t", "t", "a", "c", "h">>, F1 \o COMMA, <<"i", "n", "s", "e", "r", "t">>, F2 >>,
      << <<"i", "n", "s", "e", "r", "t">>, F2, F1 >>,
      << <<"i", "n", "s", "e", "r", "t">>, F1, NF >>,
      << <<"i", "n", "s", "e", "r", "t">>, F1, REMOTE >>,
      << <<"a", "t", "t", "a", "c", "h">>, F1, REMOTE2 >>,
      << <<"a", "t", "t", "a", "c", "h">>, REMOTE, REMOTE2 >>,
      << <<"e", "x", "e", "c">>, <<"e">>, COMMA, <<"s", "a", "y">>, <<"a">> >>,
      << <<"s", "a", "y">>, <<"a", ",", ",">>, <<"b">> >>,
      << <<"x">>, COMMA, <<"s", "a", "y">> >> }

ArgLists == ListsOf(CoreTokens, MaxArgs) \cup ListsOf(Tokens, MaxArgs - 1) \cup TestArgLists

\* ------------------------------------------------------------------------
\* Entries (markdownEntry and its three implementations)
\* ------------------------------------------------------------------------

NoPath == <<>>

messageEntry(message) ==
    [kind |-> "message", text |-> message, storagePath |-> NoPath, originalPath |-> NoPath]

fileEntry(storagePath, originalPath) ==
    [kind |-> "file", text |-> <<>>, storagePath |-> storagePath, originalPath |-> originalPath]

outputEntry(output) ==
    [kind |-> "output", text |-> output, storagePath |-> NoPath, originalPath |-> NoPath]

\* the nil error; every other error is its message
NIL == <<>>

\* ------------------------------------------------------------------------
\* The file system, the clipboard and the external commands
\* ------------------------------------------------------------------------

\* os.MkdirTemp("", "ch-"), and the n-th os.CreateTemp(ctx.TempDir, "file-")
TempDir == <<"/tmp/ch-1/">>
NumStr == <<"1", "2", "3", "4", "5", "6", "7", "8", "9">>
TempFile(n) == TempDir \o <<"file-", NumStr[n]>>
InTempDir(path) == HasPrefix(path, TempDir)

\* the directory d: what filepath.Walk visits, in lexical order
DirEntries ==
    << [path |-> DIR, name |-> <<"d">>, isDir |-> TRUE],
       [path |-> DIR \o <<"/", ".", "h">>, name |-> <<".", "h">>, isDir |-> FALSE],
       [path |-> DIR \o <<"/", "s">>, name |-> <<"s">>, isDir |-> TRUE],
       [path |-> DIR \o <<"/", "s", "/", "y">>, name |-> <<"y">>, isDir |-> FALSE],
       [path |-> DIR \o <<"/", "x">>, name |-> <<"x">>, isDir |-> FALSE] >>

IsDir(path) == \E i \in 1..Len(DirEntries) : DirEntries[i].path = path /\ DirEntries[i].isDir

\* the regular files at the start of a run: path :> content
InitialFiles ==
    (F1 :> <<"A">>) @@ (F2 :> <<"B", "\n">>)
    @@ (DIR \o <<"/", ".", "h">> :> <<"H">>)
    @@ (DIR \o <<"/", "s", "/", "y">> :> <<"Y">>)
    @@ (DIR \o <<"/", "x">> :> <<"X">>)

\* what scp copies from the remote host
RemoteContent == <<"R">>

\* what the clipboard holds at the start of a run
InitialClipboard == <<"C", "\n", "c">>

\* the texts the clipboard can hold at the start: several lines, or nothing
ClipboardTexts == { InitialClipboard, <<>> }

\* the ways an external command can end: launched and exited zero with this
\* standard output, or failed
ExecResults ==
    { [ok |-> TRUE, out |-> <<"h", "i", "\n">>],
      [ok |-> TRUE, out |-> <<>>],
      [ok |-> FALSE, out |-> <<>>] }

FileExists(fs, path) == path \in DOMAIN fs

WriteFile(fs, path, content) ==
    [p \in (DOMAIN fs) \cup {path} |-> IF p = path THEN content ELSE fs[p]]

\* os.RemoveAll(ctx.TempDir)
RemoveAll(fs) == [p \in { q \in DOMAIN fs : ~InTempDir(q) } |-> fs[p]]

\* ------------------------------------------------------------------------
\* Entry producers.  A producer reads and changes the world w =
\* [fs, nTemp, tempDir, clipboard] and returns
\* [entries, err, panic, world].  The oracle o = [scp, exec] fixes how the
\* external commands of this call end: o.scp[k] tells whether the k-th scp
\* succeeds, o.exec is the result of the executed command.
\* ------------------------------------------------------------------------

Ret(entries, err, w) == [entries |-> entries, err |-> err, panic |-> FALSE, world |-> w]

Panic(w) == [entries |-> <<>>, err |-> NIL, panic |-> TRUE, world |-> w]

\* mutant: the arguments are joined without the space
saySubNoSeparator(w, args, o) ==
    LET message == Join(args, <<>>)
    IN  Ret(<< messageEntry(message) >>, NIL, w)

saySub(w, args, o) ==
    LET message == Join(args, <<" ">>)
    IN  Ret(<< messageEntry(message) >>, NIL, w)

\* mutant: the original path is returned without the host
copyRemoteFileToTempPathOnly(w, hostname, remotePath, scpOk) ==
    IF ~w.tempDir
    THEN [tempFile |-> <<>>, originalPath |-> <<>>, err |-> <<"ENOENT">>, world |-> w]
    ELSE LET tempFileName == TempFile(w.nTemp + 1)
             created == [w EXCEPT !.nTemp = @ + 1,
                                  !.fs = WriteFile(@, tempFileName, <<>>)]
         IN  IF ~scpOk
             THEN [tempFile |-> <<>>, originalPath |-> <<>>,
                   err |-> <<"failed to copy remote file: ", "exit status 1", "\nOutput: ">>,
                   world |-> created]
             ELSE [tempFile |-> tempFileName,
                   originalPath |-> remotePath,
                   err |-> NIL,
                   world |-> [created EXCEPT !.fs = WriteFile(@, tempFileName, RemoteContent)]]

\* returns [tempFile, originalPath, err, world]
copyRemoteFileToTemp(w, hostname, remotePath, scpOk) ==
    IF ~w.tempDir
    THEN [tempFile |-> <<>>, originalPath |-> <<>>, err |-> <<"ENOENT">>, world |-> w]
    ELSE LET tempFileName == TempFile(w.nTemp + 1)
             created == [w EXCEPT !.nTemp = @ + 1,
                                  !.fs = WriteFile(@, tempFileName, <<>>)]
         IN  IF ~scpOk
             THEN [tempFile |-> <<>>, originalPath |-> <<>>,
                   err |-> <<"failed to copy remote file: ", "exit status 1", "\nOutput: ">>,
                   world |-> created]
             ELSE [tempFile |-> tempFileName,
                   originalPath |-> hostname \o <<":">> \o remotePath,
                   err |-> NIL,
                   world |-> [created EXCEPT !.fs = WriteFile(@, tempFileName, RemoteContent)]]

\* mutant: the result of os.Stat is not checked
StatOkUnchecked(w, filePath) == TRUE

\* os.Stat(filePath) succeeds
StatOk(w, filePath) == FileExists(w.fs, filePath) \/ IsDir(filePath)

\* mutant: the walk does not skip hidden files
RECURSIVE WalkEntriesWithHidden(_, _, _)
WalkEntriesWithHidden(w, root, k) ==
    IF k > Len(DirEntries) THEN <<>>
    ELSE LET info == DirEntries[k]
             under == info.path = root \/ HasPrefix(info.path, root \o <<"/">>)
             rest == WalkEntriesWithHidden(w, root, k + 1)
         IN  IF under /\ FileExists(w.fs, info.path) /\ ~info.isDir
             THEN << fileEntry(info.path, info.path) >> \o rest
             ELSE rest

\* the entries the filepath.Walk callback of attachSub appends for a directory
RECURSIVE WalkEntries(_, _, _)
WalkEntries(w, root, k) ==
    IF k > Len(DirEntries) THEN <<>>
    ELSE LET info == DirEntries[k]
             under == info.path = root \/ HasPrefix(info.path, root \o <<"/">>)
             rest == WalkEntries(w, root, k + 1)
         IN  IF under /\ FileExists(w.fs, info.path)
                /\ ~info.isDir /\ ~HasPrefix(info.name, <<".">>)
             THEN << fileEntry(info.path, info.path) >> \o rest
             ELSE rest

RECURSIVE attachLoop(_, _, _, _)
attachLoop(w, args, entries, scp) ==
    IF args = <<>> THEN Ret(entries, NIL, w)
    ELSE LET filePath == Head(args) IN
         IF Contains(filePath, ":")
         THEN LET parts == SplitN2(filePath, ":") IN
              IF Len(parts) = 2
              THEN LET cp == copyRemoteFileToTemp(w, parts[1], parts[2], Head(scp)) IN
                   IF cp.err # NIL
                   THEN Ret(<<>>, <<"failed to copy remote file: ">> \o cp.err, cp.world)
                   ELSE attachLoop(cp.world, Tail(args),
                                   Append(entries, fileEntry(cp.tempFile, cp.originalPath)),
                                   Tail(scp))
              ELSE Ret(<<>>, <<"invalid remote file path: ">> \o filePath, w)
         ELSE IF ~StatOk(w, filePath)
              THEN Ret(<<>>, <<"file does not exist: ">> \o filePath, w)
              ELSE IF IsDir(filePath)
                   THEN attachLoop(w, Tail(args), entries \o WalkEntries(w, filePath, 1), scp)
                   ELSE attachLoop(w, Tail(args),
                                   Append(entries, fileEntry(filePath, filePath)), scp)

attachSub(w, args, o) == attachLoop(w, args, <<>>, o.scp)

\* mutant: on a failed read the entries of the arguments already read are
\* returned with the error
RECURSIVE insertLoopKeepRead(_, _, _, _)
insertLoopKeepRead(w, args, entries, scp) ==
    IF args = <<>> THEN Ret(entries, NIL, w)
    ELSE LET filePath == Head(args) IN
         IF Contains(filePath, ":")
         THEN LET parts == SplitN2(filePath, ":")
                  cp == copyRemoteFileToTemp(w, parts[1], parts[2], Head(scp)) IN
              IF cp.err # NIL
              THEN Ret(entries, <<"failed to copy remote file: ">> \o cp.err, cp.world)
              ELSE insertLoopKeepRead(cp.world, Tail(args),
                                      Append(entries, messageEntry(cp.world.fs[cp.tempFile])),
                                      Tail(scp))
         ELSE IF ~FileExists(w.fs, filePath)
              THEN Ret(entries, <<"failed to read file: ", "ENOENT">>, w)
              ELSE insertLoopKeepRead(w, Tail(args),
                                      Append(entries, messageEntry(w.fs[filePath])), scp)

insertSubKeepRead(w, args, o) == insertLoopKeepRead(w, args, <<>>, o.scp)

RECURSIVE insertLoop(_, _, _, _)
insertLoop(w, args, entries, scp) ==
    IF args = <<>> THEN Ret(entries, NIL, w)
    ELSE LET filePath == Head(args) IN
         IF Contains(filePath, ":")
         THEN LET parts == SplitN2(filePath, ":") IN
              IF Len(parts) = 2
              THEN LET cp == copyRemoteFileToTemp(w, parts[1], parts[2], Head(scp)) IN
                   IF cp.err # NIL
                   THEN Ret(<<>>, <<"failed to copy remote file: ">> \o cp.err, cp.world)
                   ELSE IF ~FileExists(cp.world.fs, cp.tempFile)
                        THEN Ret(<<>>, <<"failed to read file: ", "ENOENT">>, cp.world)
                        ELSE insertLoop(cp.world, Tail(args),
                                        Append(entries, messageEntry(cp.world.fs[cp.tempFile])),
                                        Tail(scp))
              ELSE Ret(<<>>, <<"invalid remote file path: ">> \o filePath, w)
         ELSE IF ~FileExists(w.fs, filePath)
              THEN Ret(<<>>, <<"failed to read file: ", "ENOENT">>, w)
              ELSE insertLoop(w, Tail(args),
                              Append(entries, messageEntry(w.fs[filePath])), scp)

insertSub(w, args, o) == insertLoop(w, args, <<>>, o.scp)

\* args[0] of an empty args is an index out of range: a run-time panic
execSub(w, args, o) ==
    IF Len(args) = 0 THEN Panic(w)
    ELSE IF ~o.exec.ok
         THEN Ret(<<>>, <<"command execution failed: ", "exit status 1">>, w)
         ELSE Ret(<< outputEntry(o.exec.out) >>, NIL, w)

\* mutant: an empty clipboard is an error
pasteSubRejectsEmpty(w, args, o) ==
    IF w.clipboard = <<>>
    THEN Ret(<<>>, <<"clipboard is empty">>, w)
    ELSE Ret(<< messageEntry(w.clipboard) >>, NIL, w)

pasteSub(w, args, o) ==
    LET content == w.clipboard
    IN  Ret(<< messageEntry(content) >>, NIL, w)

\* ------------------------------------------------------------------------
\* The registry and the dispatcher
\* ------------------------------------------------------------------------

SAY == <<"s", "a", "y">>
ATTACH == <<"a", "t", "t", "a", "c", "h">>
INSERT == <<"i", "n", "s", "e", "r", "t">>
EXEC == <<"e", "x", "e", "c">>
PASTE == <<"p", "a", "s", "t", "e">>

subcommands == << SAY, ATTACH, INSERT, EXEC, PASTE >>

\* sub.fn(ctx, args) of the registry entry named name
CallFn(name, w, args, o) ==
    CASE name = SAY -> saySub(w, args, o)
      [] name = ATTACH -> attachSub(w, args, o)
      [] name = INSERT -> insertSub(w, args, o)
      [] name = EXEC -> execSub(w, args, o)
      [] name = PASTE -> pasteSub(w, args, o)

\* mutant: only the full name matches
MatchesExact(command) ==
    SelectSeq(subcommands, LAMBDA name : name = command)

\* the registry entries whose name starts with command, in registry order
Matches(command) ==
    SelectSeq(subcommands, LAMBDA name : HasPrefix(name, command))

\* the name of the producer invoked by a dispatch (NoFn: none)
NoFn == <<>>

\* mutant: an empty segment is absorbed instead of rejected
executeSubcommandAbsorbEmpty(w, args, o) ==
    IF Len(args) = 0
    THEN [fn |-> NoFn, fnArgs |-> <<>>, res |-> Ret(<<>>, NIL, w)]
    ELSE LET command == args[1]
             matches == Matches(command)
         IN  IF Len(matches) = 0
             THEN [fn |-> NoFn, fnArgs |-> <<>>,
                   res |-> Ret(<<>>, <<"unknown subcommand: ">> \o command, w)]
             ELSE IF Len(matches) > 1
                  THEN [fn |-> NoFn, fnArgs |-> <<>>,
                        res |-> Ret(<<>>, <<"ambiguous subcommand: ">> \o command, w)]
                  ELSE [fn |-> matches[1], fnArgs |-> Tail(args),
                        res |-> CallFn(matches[1], w, Tail(args), o)]

\* mutant: the first match wins, there is no ambiguity check
executeSubcommandFirstMatch(w, args, o) ==
    IF Len(args) = 0
    THEN [fn |-> NoFn, fnArgs |-> <<>>, res |-> Ret(<<>>, <<"no subcommand provided">>, w)]
    ELSE LET command == args[1]
             matches == Matches(command)
         IN  IF Len(matches) = 0
             THEN [fn |-> NoFn, fnArgs |-> <<>>,
                   res |-> Ret(<<>>, <<"unknown subcommand: ">> \o command, w)]
             ELSE [fn |-> matches[1], fnArgs |-> Tail(args),
                   res |-> CallFn(matches[1], w, Tail(args), o)]

\* lines 166-184

executeSubcommand(w, args, o) ==
    IF Len(args) = 0
    THEN [fn |-> NoFn, fnArgs |-> <<>>, res |-> Ret(<<>>, <<"no subcommand provided">>, w)]
    ELSE LET command == args[1]
             matches == Matches(command)
         IN  IF Len(matches) = 0
             THEN [fn |-> NoFn, fnArgs |-> <<>>,
                   res |-> Ret(<<>>, <<"unknown subcommand: ">> \o command, w)]
             ELSE IF Len(matches) > 1
                  THEN [fn |-> NoFn, fnArgs |-> <<>>,
                        res |-> Ret(<<>>, <<"ambiguous subcommand: ">> \o command, w)]
                  ELSE [fn |-> matches[1], fnArgs |-> Tail(args),
                        res |-> CallFn(matches[1], w, Tail(args), o)]

\* how many scp runs a segment can need, and the oracles for dispatching it
NumRemote(seg) == Cardinality({ k \in 1..Len(seg) : Contains(seg[k], ":") })

Oracles(seg) ==
    { [scp |-> s, exec |-> e] : s \in [1..NumRemote(seg) -> BOOLEAN], e \in ExecResults }

\* ------------------------------------------------------------------------
\* The renderer
\* ------------------------------------------------------------------------

\* the backtick character
BQ == "bq"

FENCE == <<BQ, BQ, BQ, "\n">>

\* mutant: the content of a file is trimmed like the text of a message
renderMarkdownTrimmedContent(e, files) ==
    CASE e.kind = "message" -> TrimSpace(e.text) \o <<"\n">>
      [] e.kind = "output" -> TrimSpace(e.text) \o <<"\n">>
      [] e.kind = "file" ->
            IF ~FileExists(files, e.storagePath)
            THEN <<>>
            ELSE <<BQ>> \o e.originalPath \o <<BQ, "\n">> \o FENCE
                 \o TrimSpace(files[e.storagePath]) \o FENCE

renderMarkdown(e, files) ==
    CASE e.kind = "message" -> TrimSpace(e.text) \o <<"\n">>
      [] e.kind = "output" -> TrimSpace(e.text) \o <<"\n">>
      [] e.kind = "file" ->
            IF ~FileExists(files, e.storagePath)
            THEN <<>>
            ELSE <<BQ>> \o e.originalPath \o <<BQ, "\n">> \o FENCE
                 \o files[e.storagePath] \o FENCE

\* mutant: no newline is added after an entry's markdown
RECURSIVE BuiltNoSeparator(_, _)
BuiltNoSeparator(es, files) ==
    IF es = <<>> THEN <<>>
    ELSE renderMarkdown(Head(es), files) \o BuiltNoSeparator(Tail(es), files)

\* the strings.Builder after the loop over entries
RECURSIVE Built(_, _)
Built(es, files) ==
    IF es = <<>> THEN <<>>
    ELSE renderMarkdown(Head(es), files) \o <<"\n">> \o Built(Tail(es), files)

\* mutant: the built string is not trimmed
generateMarkdownUntrimmed(es, files) == Built(es, files)

generateMarkdown(es, files) == TrimSpace(Built(es, files)) \o <<"\n">>

\* ------------------------------------------------------------------------
\* processSubcommands, step by step
\* ------------------------------------------------------------------------

\* mutant: a comma anywhere in the token closes the segment
EndsSegmentAnyComma(arg) == Contains(arg, ",")

\* line 141: the trimmed token closes the segment
EndsSegment(arg) == HasSuffix(arg, COMMA)

\* mutant: the remainder is appended even when it is empty
AccumAtCommaKeepEmpty(accum, arg) == Append(accum, TrimSuffix(arg, COMMA))

\* lines 142-145: the accumulator a closing token leaves to dispatch
AccumAtComma(accum, arg) ==
    LET argWithoutComma == TrimSuffix(arg, COMMA)
    IN  IF Len(argWithoutComma) > 0 THEN Append(accum, argWithoutComma) ELSE accum

\* line 148: the error returned for a segment closed by a comma
WrapErr(accum, err) ==
    <<"failed to execute subcommand ">> \o FmtSlice(accum) \o <<": ">> \o err

\* mutant: the final dispatch is not guarded
FinalDispatchAlways(accum) == TRUE

\* line 156: whether the tokens left after the loop are dispatched
FinalDispatch(accum) == Len(accum) > 0

\* mutant: the new entries are put in front
AppendEntriesInFront(es, subcommandEntries) == subcommandEntries \o es

\* lines 150 and 161: entries = append(entries, subcommandEntries...)
AppendEntries(es, subcommandEntries) == es \o subcommandEntries

\* mutant: the entries collected so far are returned with the error
EntriesOnErrorKept(es) == es

\* lines 148 and 159: the entries returned with an error (nil)
EntriesOnError(es) == <<>>

VARIABLES
    args,             \* flag.Args(), or the args of a direct call
    copyToClipboard,  \* -c
    outputFile,       \* -o
    helpFlag,         \* -help
    caller,           \* "main", or "test": processSubcommands called directly
    pc,               \* where the run is
    argIndex,         \* the index of the next token of the loop
    accumCommand,
    entries,
    retEntries,       \* what processSubcommands returned
    retErr,
    fs,               \* the regular files: path -> content
    nTemp,            \* temporary files created so far
    tempDirExists,
    clipboard,
    deferred,         \* ctx.Cleanup is deferred
    markdown,
    stdout,
    stderr,
    exitStatus,
    dispatched,       \* the calls of executeSubcommand so far, in order
    renders,          \* the results of the direct calls of generateMarkdown
    modLog,           \* the files rewritten during the run, and when
    hung              \* a producer was called and its external command never returns

vars == << args, copyToClipboard, outputFile, helpFlag, caller, pc, argIndex,
           accumCommand, entries, retEntries, retErr, fs, nTemp, tempDirExists,
           clipboard, deferred, markdown, stdout, stderr, exitStatus, dispatched,
           renders, modLog, hung >>

flagVars == << args, copyToClipboard, outputFile, helpFlag, caller >>
loopVars == << argIndex, accumCommand, entries, retEntries, retErr, dispatched >>
worldVars == << fs, nTemp, tempDirExists, clipboard >>
outVars == << markdown, stdout, stderr, exitStatus >>
envVars == << renders, modLog, hung >>

World == [fs |-> fs, nTemp |-> nTemp, tempDir |-> tempDirExists, clipboard |-> clipboard]

SetWorld(w) ==
    /\ fs' = w.fs
    /\ nTemp' = w.nTemp
    /\ tempDirExists' = w.tempDir
    /\ clipboard' = w.clipboard

Call(seg, d) ==
    [segment |-> seg, fn |-> d.fn, fnArgs |-> d.fnArgs,
     entries |-> d.res.entries, err |-> d.res.err, panic |-> d.res.panic]

\* the token lists main is run with
MainArgLists ==
    ListsOf(CoreTokens, MaxArgs - 1) \cup TestArgLists \cup
    { << ATTACH, REMOTE >>, << INSERT, REMOTE >>, << ATTACH, REMOTE, NF >>,
      << PASTE >>, << ATTACH, NF >>, << INSERT, F2 >>, << SAY, <<" ">> >> }

\* the clipboard texts that make a difference to a run with these tokens
ClipboardsFor(tokens) ==
    IF \E k \in 1..Len(tokens) : tokens[k] = PASTE
    THEN ClipboardTexts ELSE { InitialClipboard }

InitCommon ==
    /\ argIndex = 1
    /\ accumCommand = <<>>
    /\ entries = <<>>
    /\ retEntries = <<>>
    /\ retErr = NIL
    /\ fs = InitialFiles
    /\ nTemp = 0
    /\ clipboard \in ClipboardsFor(args)
    /\ markdown = <<>>
    /\ stdout = <<>>
    /\ stderr = <<>>
    /\ exitStatus = -1
    /\ dispatched = <<>>
    /\ renders = <<>>
    /\ modLog = <<>>
    /\ hung = FALSE

\* the process after flag.Parse()
InitMain ==
    /\ caller = "main"
    /\ args \in MainArgLists
    /\ copyToClipboard \in BOOLEAN
    /\ outputFile \in { <<>>, <<"-">>, OUTFILE }
    /\ helpFlag \in BOOLEAN
    /\ pc = "main"
    /\ tempDirExists = FALSE
    /\ deferred = FALSE
    /\ InitCommon

\* processSubcommands called with a fresh context, as the tests call it
InitTest ==
    /\ caller = "test"
    /\ args \in ArgLists
    /\ copyToClipboard = FALSE
    /\ outputFile = <<>>
    /\ helpFlag = FALSE
    /\ pc = "process"
    /\ tempDirExists = TRUE
    /\ deferred = TRUE
    /\ InitCommon

\* files of the renderer's tests: an empty file, and one whose content has
\* blank lines at both ends
FE == <<"f", "e">>
FB == <<"f", "b">>

RenderFiles == InitialFiles @@ (FE :> <<>>) @@ (FB :> <<"\n", "L", "\n", "\n">>)

\* the entries generateMarkdown is called with directly
RenderEntries ==
    { messageEntry(m) : m \in { <<>>, <<" ">>, <<"a">>, <<" ", "b", "\n">> } }
    \cup { outputEntry(t) : t \in { <<>>, <<"o", "\n">> } }
    \cup { fileEntry(f, f) : f \in { F1, F2, FE, FB, NF } }

\* the mixed entries of TestGenerateMarkdown
TestEntryLists ==
    { << messageEntry(<<"M", "1">>), fileEntry(F2, F2), outputEntry(<<"o">>),
         messageEntry(<<"M", "2">>) >>,
      << messageEntry(<<>>), fileEntry(FE, FE), outputEntry(<<>>), messageEntry(<<>>) >> }

EntryLists == ListsOf(RenderEntries, MaxEntries) \cup TestEntryLists

\* generateMarkdown called directly, as TestGenerateMarkdown calls it
InitRender ==
    /\ caller = "render"
    /\ args = <<>>
    /\ copyToClipboard = FALSE
    /\ outputFile = <<>>
    /\ helpFlag = FALSE
    /\ pc = "renderCall"
    /\ tempDirExists = TRUE
    /\ deferred = FALSE
    /\ argIndex = 1
    /\ accumCommand = <<>>
    /\ entries = <<>>
    /\ retEntries \in EntryLists
    /\ retErr = NIL
    /\ fs = RenderFiles
    /\ nTemp = 0
    /\ clipboard = InitialClipboard
    /\ markdown = <<>>
    /\ stdout = <<>>
    /\ stderr = <<>>
    /\ exitStatus = -1
    /\ dispatched = <<>>
    /\ renders = <<>>
    /\ modLog = <<>>
    /\ hung = FALSE

Init == InitMain \/ InitTest \/ InitRender

\* mutant: a call of generateMarkdown that consumes the entries it renders
RenderCallConsuming ==
    /\ pc = "renderCall"
    /\ Len(renders) < 2
    /\ renders' = Append(renders, generateMarkdown(retEntries, fs))
    /\ markdown' = generateMarkdown(retEntries, fs)
    /\ retEntries' = <<>>
    /\ UNCHANGED << flagVars, argIndex, accumCommand, entries, retErr, dispatched, worldVars,
                    deferred, pc, stdout, stderr, exitStatus, modLog, hung >>

\* a call of generateMarkdown on the entries, made at most twice
RenderCall ==
    /\ pc = "renderCall"
    /\ Len(renders) < 2
    /\ renders' = Append(renders, generateMarkdown(retEntries, fs))
    /\ markdown' = generateMarkdown(retEntries, fs)
    /\ UNCHANGED << flagVars, loopVars, worldVars, deferred, pc, stdout, stderr, exitStatus, modLog, hung >>

\* what another process writes into a file of the run
NewContent == <<"Z", "\n">>

\* the local paths the run's tokens name
NamedPaths ==
    { path \in {F1, F2} :
        \E k \in 1..Len(args) : TrimSuffix(TrimSpace(args[k]), COMMA) = path }

\* another process rewrites a file the run names, before main renders
EnvModifyFile ==
    /\ caller = "main"
    /\ pc \in {"process", "processed", "render"}
    /\ Len(modLog) < MaxModifications
    /\ \E path \in NamedPaths :
          /\ fs[path] # NewContent
          /\ fs' = WriteFile(fs, path, NewContent)
          /\ modLog' = Append(modLog, [path |-> path, calls |-> Len(dispatched)])
    /\ UNCHANGED << flagVars, loopVars, nTemp, tempDirExists, clipboard, deferred, pc,
                    outVars, renders, hung >>

\* mutant: the pipeline goes on while a producer has not returned
BlocksNever(h) == FALSE

\* a producer that has not returned blocks its caller: nothing runs
\* concurrently with cmd.Output()
Blocks(h) == h

\* whether the next step of processSubcommands dispatches a segment, and
\* the segment it dispatches
DispatchesNext ==
    IF argIndex <= Len(args)
    THEN EndsSegment(TrimSpace(args[argIndex]))
    ELSE FinalDispatch(accumCommand)

NextSegment ==
    IF argIndex <= Len(args)
    THEN AccumAtComma(accumCommand, TrimSpace(args[argIndex]))
    ELSE accumCommand

\* line 282: execSub is called and the command it runs never exits
ProducerHangs ==
    /\ pc = "process"
    /\ ~hung
    /\ DispatchesNext
    /\ \E o \in Oracles(NextSegment) :
          LET d == executeSubcommand(World, NextSegment, o) IN
          d.fn = EXEC /\ d.fnArgs # <<>>
    /\ hung' = TRUE
    /\ UNCHANGED << flagVars, loopVars, worldVars, deferred, pc, outVars, renders, modLog >>

\* lines 139-155: one iteration of the loop over args
ProcessArg ==
    /\ pc = "process"
    /\ ~Blocks(hung)
    /\ argIndex <= Len(args)
    /\ LET arg == TrimSpace(args[argIndex]) IN
       IF EndsSegment(arg)
       THEN LET accum == AccumAtComma(accumCommand, arg) IN
            \E o \in Oracles(accum) :
               LET d == executeSubcommand(World, accum, o) IN
               /\ dispatched' = Append(dispatched, Call(accum, d))
               /\ SetWorld(d.res.world)
               /\ IF d.res.panic
                  THEN /\ pc' = "panic"
                       /\ accumCommand' = accum
                       /\ UNCHANGED << argIndex, entries, retEntries, retErr >>
                  ELSE IF d.res.err # NIL
                       THEN /\ pc' = "processed"
                            /\ retEntries' = EntriesOnError(entries)
                            /\ retErr' = WrapErr(accum, d.res.err)
                            /\ accumCommand' = accum
                            /\ UNCHANGED << argIndex, entries >>
                       ELSE /\ entries' = AppendEntries(entries, d.res.entries)
                            /\ accumCommand' = <<>>
                            /\ argIndex' = argIndex + 1
                            /\ UNCHANGED << pc, retEntries, retErr >>
       ELSE /\ accumCommand' = Append(accumCommand, arg)
            /\ argIndex' = argIndex + 1
            /\ UNCHANGED << pc, entries, retEntries, retErr, dispatched, worldVars >>
    /\ UNCHANGED << flagVars, envVars, deferred, outVars >>

\* lines 156-163: the final segment and the return
ProcessEnd ==
    /\ pc = "process"
    /\ ~Blocks(hung)
    /\ argIndex > Len(args)
    /\ IF FinalDispatch(accumCommand)
       THEN \E o \in Oracles(accumCommand) :
               LET d == executeSubcommand(World, accumCommand, o) IN
               /\ dispatched' = Append(dispatched, Call(accumCommand, d))
               /\ SetWorld(d.res.world)
               /\ IF d.res.panic
                  THEN /\ pc' = "panic"
                       /\ UNCHANGED << entries, retEntries, retErr >>
                  ELSE IF d.res.err # NIL
                       THEN /\ pc' = "processed"
                            /\ retEntries' = EntriesOnError(entries)
                            /\ retErr' = d.res.err
                            /\ UNCHANGED entries
                       ELSE /\ pc' = "processed"
                            /\ entries' = AppendEntries(entries, d.res.entries)
                            /\ retEntries' = AppendEntries(entries, d.res.entries)
                            /\ retErr' = NIL
       ELSE /\ pc' = "processed"
            /\ retEntries' = entries
            /\ retErr' = NIL
            /\ UNCHANGED << entries, dispatched, worldVars >>
    /\ UNCHANGED << flagVars, envVars, argIndex, accumCommand, deferred, outVars >>

\* ------------------------------------------------------------------------
\* main
\* ------------------------------------------------------------------------

\* log.Fatal: the message, then os.Exit(1); deferred calls do not run
Fatal(msg) ==
    /\ stderr' = Append(stderr, msg)
    /\ exitStatus' = 1
    /\ pc' = "exited"

\* lines 354-361
MainFlags ==
    /\ pc = "main"
    /\ IF helpFlag
       THEN /\ stdout' = Append(stdout, <<"usage">>)
            /\ exitStatus' = 0
            /\ pc' = "exited"
            /\ UNCHANGED stderr
       ELSE IF ~copyToClipboard /\ outputFile = <<>>
            THEN Fatal(<<"Either -c or -o must be specified">>) /\ UNCHANGED stdout
            ELSE pc' = "clipboardInit" /\ UNCHANGED << stdout, stderr, exitStatus >>
    /\ UNCHANGED << flagVars, envVars, loopVars, worldVars, deferred, markdown >>

\* lines 363-365
MainClipboardInit ==
    /\ pc = "clipboardInit"
    /\ \E ok \in BOOLEAN :
          IF ok
          THEN pc' = "newContext" /\ UNCHANGED << stderr, exitStatus >>
          ELSE Fatal(<<"Failed to initialize clipboard: ">>)
    /\ UNCHANGED << flagVars, envVars, loopVars, worldVars, deferred, markdown, stdout >>

\* lines 367-371, NewContext and the defer
MainNewContext ==
    /\ pc = "newContext"
    /\ \E ok \in BOOLEAN :
          IF ok
          THEN /\ tempDirExists' = TRUE
               /\ deferred' = TRUE
               /\ pc' = "process"
               /\ UNCHANGED << stderr, exitStatus >>
          ELSE /\ Fatal(<<"Failed to create context: ", "failed to create temporary directory: ">>)
               /\ UNCHANGED << tempDirExists, deferred >>
    /\ UNCHANGED << flagVars, envVars, loopVars, fs, nTemp, clipboard, markdown, stdout >>

\* mutant: main goes on to render whatever processSubcommands returned
MainProcessedIgnoringErr ==
    /\ pc = "processed"
    /\ caller = "main"
    /\ pc' = "render"
    /\ UNCHANGED << flagVars, envVars, loopVars, worldVars, deferred, markdown, stdout, stderr, exitStatus >>

\* lines 374-377: processSubcommands has returned to main
MainProcessed ==
    /\ pc = "processed"
    /\ caller = "main"
    /\ IF retErr # NIL
       THEN Fatal(<<"Failed to process subcommands: ">> \o retErr)
       ELSE pc' = "render" /\ UNCHANGED << stderr, exitStatus >>
    /\ UNCHANGED << flagVars, envVars, loopVars, worldVars, deferred, markdown, stdout >>

\* mutant: the files are rendered with the content they had when the run began
MainRenderStale ==
    /\ pc = "render"
    /\ markdown' = generateMarkdown(retEntries, [p \in DOMAIN fs |->
                        IF p \in DOMAIN InitialFiles THEN InitialFiles[p] ELSE fs[p]])
    /\ pc' = "emit"
    /\ UNCHANGED << flagVars, envVars, loopVars, worldVars, deferred, stdout, stderr, exitStatus >>

\* line 379
MainRender ==
    /\ pc = "render"
    /\ markdown' = generateMarkdown(retEntries, fs)
    /\ pc' = "emit"
    /\ UNCHANGED << flagVars, envVars, loopVars, worldVars, deferred, stdout, stderr, exitStatus >>

\* lines 381-392
MainEmit ==
    /\ pc = "emit"
    /\ IF copyToClipboard
       THEN /\ clipboard' = markdown
            /\ stdout' = Append(stdout, <<"Markdown copied to the clipboard.", "\n">>)
            /\ UNCHANGED << fs, stderr >>
       ELSE IF outputFile = <<"-">>
            THEN /\ stdout' = Append(stdout, markdown)
                 /\ UNCHANGED << fs, clipboard, stderr >>
            ELSE \E ok \in BOOLEAN :
                    IF ok
                    THEN /\ fs' = WriteFile(fs, outputFile, markdown)
                         /\ stdout' = Append(stdout, <<"Markdown written to file: ">> \o outputFile \o <<"\n">>)
                         /\ UNCHANGED << clipboard, stderr >>
                    ELSE /\ stderr' = Append(stderr, <<"Failed to write output to file: ">>)
                         /\ UNCHANGED << fs, clipboard, stdout >>
    /\ pc' = "return"
    /\ UNCHANGED << flagVars, envVars, loopVars, nTemp, tempDirExists, deferred, markdown, exitStatus >>

\* Context.Cleanup, lines 72-74
Cleanup ==
    /\ fs' = RemoveAll(fs)
    /\ tempDirExists' = FALSE

\* the deferred calls of a function that returns or panics
RunDeferred ==
    IF deferred THEN Cleanup ELSE UNCHANGED << fs, tempDirExists >>

\* line 393: main returns, its deferred call runs, the process exits 0
MainReturn ==
    /\ pc = "return"
    /\ RunDeferred
    /\ exitStatus' = 0
    /\ pc' = "exited"
    /\ UNCHANGED << flagVars, envVars, loopVars, nTemp, clipboard, deferred, markdown, stdout, stderr >>

\* a run-time panic unwinds the stack, running the deferred calls, and the
\* process exits with status 2
PanicUnwind ==
    /\ pc = "panic"
    /\ RunDeferred
    /\ stderr' = Append(stderr, <<"panic: runtime error: index out of range">>)
    /\ exitStatus' = 2
    /\ pc' = "exited"
    /\ UNCHANGED << flagVars, envVars, loopVars, nTemp, clipboard, deferred, markdown, stdout >>

Next ==
    \/ MainFlags
    \/ MainClipboardInit
    \/ MainNewContext
    \/ ProcessArg
    \/ ProcessEnd
    \/ MainProcessed
    \/ MainRender
    \/ MainEmit
    \/ MainReturn
    \/ PanicUnwind
    \/ RenderCall
    \/ EnvModifyFile
    \/ ProducerHangs

Spec == Init /\ [][Next]_vars

\* the steps of the process itself
ProgramStep ==
    \/ MainFlags
    \/ MainClipboardInit
    \/ MainNewContext
    \/ ProcessArg
    \/ ProcessEnd
    \/ MainProcessed
    \/ MainRender
    \/ MainEmit
    \/ MainReturn
    \/ PanicUnwind
    \/ RenderCall

\* the runs whose termination is checked: main with every token list and
\* its output on standard output, main with every combination of flags on
\* the token lists of the tests, and the tests' calls
InitFair ==
    \/ InitMain /\ \/ args \in TestArgLists
                   \/ ~copyToClipboard /\ outputFile = <<"-">> /\ ~helpFlag
    \/ InitTest /\ args \in TestArgLists
    \/ InitRender /\ retEntries \in TestEntryLists

\* the process is scheduled: it takes its next step when it has one
FairSpec == InitFair /\ [][Next]_vars /\ WF_vars(ProgramStep)

\* ------------------------------------------------------------------------
\* Properties
\* ------------------------------------------------------------------------

\* processSubcommands has been entered and has ended (returned or panicked)
ProcessingOver == deferred /\ pc # "process"

\* processSubcommands returned its entries and no error
Succeeded == ProcessingOver /\ pc # "panic" /\ retErr = NIL /\ (pc = "exited" => exitStatus = 0)

RECURSIVE ConcatEntries(_)
ConcatEntries(calls) ==
    IF calls = <<>> THEN <<>> ELSE Head(calls).entries \o ConcatEntries(Tail(calls))

RECURSIVE ConcatSegments(_)
ConcatSegments(calls) ==
    IF calls = <<>> THEN <<>> ELSE Head(calls).segment \o ConcatSegments(Tail(calls))

Segments(calls) == [k \in 1..Len(calls) |-> calls[k].segment]

\* a token without its surrounding whitespace and without its closing comma
Word(token) ==
    LET t == TrimSpace(token)
    IN  IF t # <<>> /\ t[Len(t)] = "," THEN SubSeq(t, 1, Len(t) - 1) ELSE t

ClosesSegment(token) ==
    LET t == TrimSpace(token) IN t # <<>> /\ t[Len(t)] = ","

\* the words of the first n tokens, in order; a closing comma with nothing
\* before it contributes no word
RECURSIVE Words(_, _)
Words(tokens, n) ==
    IF n = 0 THEN <<>>
    ELSE IF ClosesSegment(tokens[n]) /\ Word(tokens[n]) = <<>>
         THEN Words(tokens, n - 1)
         ELSE Append(Words(tokens, n - 1), Word(tokens[n]))

Names == { subcommands[k] : k \in 1..Len(subcommands) }

NamesStartingWith(command) == { name \in Names : HasPrefix(name, command) }

\* C1: while processSubcommands runs and when it has succeeded, the entries
\* are the concatenation, in dispatch order, of the entries each dispatched
\* segment's producer returned, and the dispatched segments (with the open
\* accumulator) are the words of the tokens read so far, in input order, each
\* exactly once; every dispatched segment of a successful run is non-empty.
C1_EntriesInSegmentOrder ==
    /\ pc = "process" =>
          /\ entries = ConcatEntries(dispatched)
          /\ ConcatSegments(dispatched) \o accumCommand = Words(args, argIndex - 1)
    /\ Succeeded =>
          /\ retEntries = ConcatEntries(dispatched)
          /\ ConcatSegments(dispatched) = Words(args, Len(args))
          /\ \A k \in 1..Len(dispatched) : dispatched[k].segment # <<>>

\* the mixed run of the tests: five segments, five entries, in order
C1_Witness ==
    /\ Succeeded
    /\ Len(dispatched) = 5
    /\ Len(retEntries) = 5
    /\ retEntries[1].kind = "message" /\ retEntries[2].kind = "file"
    /\ retEntries[4].kind = "output" /\ retEntries[5].text = <<"M", "2">>

\* C2: a token that ends with a comma after trimming closes the segment: in
\* the step of the program that reads it, the accumulator, extended by the token without its
\* comma when that is non-empty, is dispatched as one segment, and no later
\* token has been read; so say a, b gives the segments [say a] and [b], and
\* attach X , attach Y gives [attach X] and [attach Y].
C2_CommaStep ==
    (pc = "process" /\ argIndex <= Len(args) /\ ClosesSegment(args[argIndex])
     /\ modLog' = modLog /\ hung' = hung) =>
        /\ Len(dispatched') = Len(dispatched) + 1
        /\ dispatched'[Len(dispatched')].segment =
              (IF Word(args[argIndex]) # <<>>
               THEN Append(accumCommand, Word(args[argIndex]))
               ELSE accumCommand)
        /\ argIndex' \in {argIndex, argIndex + 1}

C2_Examples ==
    /\ (ProcessingOver /\ args = << SAY, <<"a", ",">>, <<"b">> >>) =>
          Segments(dispatched) = << << SAY, <<"a">> >>, << <<"b">> >> >>
    /\ (ProcessingOver /\ args = << ATTACH, F1, COMMA, ATTACH, F2 >>) =>
          Segments(dispatched) = << << ATTACH, F1 >>, << ATTACH, F2 >> >>

C2_CommaClosesSegment == [][C2_CommaStep]_vars /\ []C2_Examples

C2_Witness ==
    /\ args = << SAY, <<"a", ",">>, <<"b">> >>
    /\ ProcessingOver
    /\ Len(dispatched) = 2

\* C3, as claimed: a comma token that arrives while the accumulator is empty
\* is absorbed: no empty segment is ever dispatched.
C3_EmptyCommaAbsorbed ==
    \A k \in 1..Len(dispatched) : dispatched[k].segment # <<>>

\* C3, amended: a comma token that arrives while the accumulator is empty
\* dispatches the empty accumulator; executeSubcommand rejects it with "no
\* subcommand provided" and invokes no producer, processSubcommands returns
\* that error (wrapped) and no entries, and nothing is dispatched afterwards.
C3_EmptyCommaFails ==
    \A k \in 1..Len(dispatched) :
        dispatched[k].segment = <<>> =>
            /\ k = Len(dispatched)
            /\ dispatched[k].fn = NoFn
            /\ dispatched[k].entries = <<>>
            /\ dispatched[k].err = <<"no subcommand provided">>
            /\ ProcessingOver
            /\ retErr = WrapErr(<<>>, <<"no subcommand provided">>)
            /\ retEntries = <<>>

\* the second of two consecutive commas
C3_Witness ==
    /\ args = << SAY, <<"a">>, COMMA, COMMA, SAY, <<"b">> >>
    /\ Len(dispatched) = 2
    /\ dispatched[1].err = NIL
    /\ dispatched[2].segment = <<>>
    /\ retErr # NIL

NoTrailingComma(token) == ~HasSuffix(token, COMMA)

\* C4, as claimed: a non-empty token list in which no token ends with a comma
\* is dispatched as exactly one segment equal to the token list.
C4_OneSegmentVerbatim ==
    (ProcessingOver /\ args # <<>> /\ \A k \in 1..Len(args) : NoTrailingComma(args[k])) =>
        /\ Len(dispatched) = 1
        /\ dispatched[1].segment = args

\* C4, amended: a non-empty token list in which no token ends with a comma
\* after its surrounding whitespace is trimmed is dispatched as exactly one
\* segment, equal to the token list with every token trimmed.
C4_OneSegmentTrimmed ==
    (ProcessingOver /\ args # <<>> /\ \A k \in 1..Len(args) : NoTrailingComma(TrimSpace(args[k]))) =>
        /\ Len(dispatched) = 1
        /\ dispatched[1].segment = [k \in 1..Len(args) |-> TrimSpace(args[k])]

\* a comma in the middle of a token, and a token with surrounding whitespace
C4_Witness ==
    /\ args = << SAY, <<" ", "a", " ">>, <<"a", ",", "b">> >>
    /\ ProcessingOver
    /\ Len(dispatched) = 1
    /\ dispatched[1].segment = << SAY, <<"a">>, <<"a", ",", "b">> >>
    /\ dispatched[1].entries = << messageEntry(<<"a", " ", "a", ",", "b">>) >>

\* C5: for the empty token list processSubcommands dispatches nothing and
\* returns no entries and no error, and the run renders the document "\n".
C5_EmptyArgs ==
    (args = <<>> /\ ProcessingOver) =>
        /\ dispatched = <<>>
        /\ retEntries = <<>>
        /\ retErr = NIL
        /\ pc # "panic"
        /\ (caller = "main" /\ pc \in {"emit", "return", "exited"}) => markdown = <<"\n">>

C5_Witness ==
    /\ args = <<>>
    /\ caller = "main"
    /\ pc = "exited"
    /\ exitStatus = 0
    /\ markdown = <<"\n">>
    /\ stdout = << <<"\n">> >>

\* C6: a dispatch invokes the producer named N, with exactly the segment's
\* remaining tokens, if and only if N is the only registered name that starts
\* with the segment's first token; at and a resolve to attach, s to say, and
\* every full name to itself.
C6_UniquePrefixDispatch ==
    \A k \in 1..Len(dispatched) :
        LET call == dispatched[k] IN
        /\ \A N \in Names :
              (call.fn = N /\ call.fnArgs = Tail(call.segment))
                 <=> (call.segment # <<>> /\ NamesStartingWith(call.segment[1]) = {N})
        /\ call.segment # <<>> =>
              /\ call.segment[1] \in { <<"a">>, <<"a", "t">> } => call.fn = ATTACH
              /\ call.segment[1] = <<"s">> => call.fn = SAY
              /\ call.segment[1] \in Names => call.fn = call.segment[1]

C6_Witness ==
    \E k \in 1..Len(dispatched) :
        /\ dispatched[k].segment = << <<"a", "t">>, F1 >>
        /\ dispatched[k].fn = ATTACH
        /\ dispatched[k].fnArgs = << F1 >>
        /\ dispatched[k].entries = << fileEntry(F1, F1) >>

\* C7: a dispatch whose first token is a prefix of no registered name fails
\* with "unknown subcommand", one whose first token is a prefix of more than
\* one registered name fails with "ambiguous subcommand"; in both cases no
\* producer is invoked and no entry is returned.
C7_UnknownOrAmbiguous ==
    \A k \in 1..Len(dispatched) :
        LET call == dispatched[k] IN
        call.segment # <<>> =>
            /\ NamesStartingWith(call.segment[1]) = {} =>
                  /\ call.err = <<"unknown subcommand: ">> \o call.segment[1]
                  /\ call.fn = NoFn
                  /\ call.entries = <<>>
            /\ Cardinality(NamesStartingWith(call.segment[1])) > 1 =>
                  /\ call.err = <<"ambiguous subcommand: ">> \o call.segment[1]
                  /\ call.fn = NoFn
                  /\ call.entries = <<>>

\* an all-whitespace token in subcommand position is a prefix of every name
C7_Witness ==
    \E k \in 1..Len(dispatched) :
        /\ dispatched[k].segment = << <<>>, <<"x">> >>
        /\ dispatched[k].err = <<"ambiguous subcommand: ">>
        /\ dispatched[k].fn = NoFn

\* C8: once the dispatch of a segment has failed, processSubcommands has
\* returned an error and no entries, and the failing dispatch is the last one.
C8_FailureAbortsAll ==
    \A k \in 1..Len(dispatched) :
        dispatched[k].err # NIL =>
            /\ k = Len(dispatched)
            /\ ProcessingOver
            /\ retErr # NIL
            /\ retEntries = <<>>

\* a failure after a segment that had succeeded and yielded entries
C8_Witness ==
    /\ Len(dispatched) = 2
    /\ dispatched[1].entries # <<>>
    /\ entries # <<>>
    /\ dispatched[2].err # NIL
    /\ argIndex < Len(args)
    /\ retErr # NIL
    /\ retEntries = <<>>

\* the run has written to an output destination
Emitted ==
    \/ clipboard \notin ClipboardTexts
    \/ FileExists(fs, OUTFILE)
    \/ stdout # <<>>

\* C9: in a run of main in which processSubcommands returned an error,
\* nothing is written to the clipboard, the output file or standard output
\* and the exit status is non-zero; output is emitted only after processing
\* has ended without error.
C9_NoOutputOnError ==
    caller = "main" =>
        /\ retErr # NIL =>
              /\ ~Emitted
              /\ pc \in {"processed", "exited"}
              /\ pc = "exited" => exitStatus = 1
        /\ (Emitted /\ ~helpFlag) => (Succeeded /\ pc \in {"return", "exited"})

C9_Witness ==
    /\ caller = "main"
    /\ retErr # NIL
    /\ Len(dispatched) = 2
    /\ pc = "exited"
    /\ exitStatus = 1
    /\ ~Emitted

\* C10: when the process has exited after creating its staging directory,
\* the directory has been deleted.
C10_StagingDirDeleted ==
    (caller = "main" /\ pc = "exited" /\ deferred) => ~tempDirExists

\* ------------------------------------------------------------------------
\* Properties of the renderer
\* ------------------------------------------------------------------------

\* a document that generateMarkdown has returned for the entries retEntries:
\* by a direct call, or to main
Rendered == (caller = "render" /\ renders # <<>>) \/ (caller = "main" /\ pc = "emit")

Document == IF caller = "render" THEN renders[1] ELSE markdown

Readable(e) == e.kind = "file" /\ FileExists(fs, e.storagePath)

Unreadable(e) == e.kind = "file" /\ ~FileExists(fs, e.storagePath)

\* the fragment of a readable File entry
FileFragment(path, content) ==
    <<BQ>> \o path \o <<BQ, "\n", BQ, BQ, BQ, "\n">> \o content \o <<BQ, BQ, BQ, "\n">>

\* the fragment of an entry; an unreadable File contributes the empty fragment
Fragment(e) ==
    IF e.kind = "file"
    THEN IF Readable(e) THEN FileFragment(e.originalPath, fs[e.storagePath]) ELSE <<>>
    ELSE TrimSpace(e.text) \o <<"\n">>

Fragments(es) == [k \in 1..Len(es) |-> Fragment(es[k])]

\* sub occurs in s as a contiguous run
ContainsSub(s, sub) ==
    \E i \in 0..(Len(s) - Len(sub)) : SubSeq(s, i + 1, i + Len(sub)) = sub

RemoveAt(es, k) == SubSeq(es, 1, k - 1) \o SubSeq(es, k + 1, Len(es))

\* C11: generateMarkdown returns the entries' fragments in order, one extra
\* newline between consecutive fragments, the whole trimmed of leading and
\* trailing whitespace and ended with one newline; the mixed entries of the
\* tests render with exactly one blank line between each pair.
C11_FragmentsJoined ==
    Rendered =>
        /\ Document = TrimSpace(Join(Fragments(retEntries), <<"\n">>)) \o <<"\n">>
        /\ retEntries = << messageEntry(<<"M", "1">>), fileEntry(F2, F2),
                           outputEntry(<<"o">>), messageEntry(<<"M", "2">>) >>
              => Document = <<"M", "1", "\n", "\n">>
                            \o <<BQ, "f", "2", BQ, "\n", BQ, BQ, BQ, "\n", "B", "\n", BQ, BQ, BQ, "\n", "\n">>
                            \o <<"o", "\n", "\n", "M", "2", "\n">>

C11_Witness ==
    /\ caller = "render"
    /\ renders # <<>>
    /\ Len(retEntries) = 4
    /\ retEntries[1] = messageEntry(<<"M", "1">>)
    /\ retEntries[2] = fileEntry(F2, F2)

\* no run of three newlines: no two consecutive blank lines
NoTwoBlankLines(s) == ~ContainsSub(s, <<"\n", "\n", "\n">>)

\* C12, as claimed: for entries none of which has a blank line of its own
\* and whose files are all readable, Message and Output entries with empty
\* or all-whitespace text included, the document never has two or more
\* consecutive blank lines.
C12_OneBlankLine ==
    (Rendered /\ \A k \in 1..Len(retEntries) :
                    /\ ~Unreadable(retEntries[k])
                    /\ NoTwoBlankLines(Fragment(retEntries[k])))
        => NoTwoBlankLines(Document)

\* C13, as claimed: the document of a sequence with an unreadable File entry
\* is the document of the sequence without that entry, at every position.
C13_UnreadableSkipped ==
    Rendered =>
        \A k \in 1..Len(retEntries) :
            Unreadable(retEntries[k]) =>
                Document = generateMarkdown(RemoveAt(retEntries, k), fs)

\* an entry that contributes visible content
Visible(e) == IF e.kind = "file" THEN Readable(e) ELSE TrimSpace(e.text) # <<>>

\* C14: the document ends with exactly one newline and begins with a
\* non-whitespace character, unless no entry contributes visible content,
\* when it is exactly "\n".
C14_TrimmedDocument ==
    Rendered =>
        IF \E k \in 1..Len(retEntries) : Visible(retEntries[k])
        THEN /\ Len(Document) >= 2
             /\ ~IsSpace(Document[1])
             /\ Document[Len(Document)] = "\n"
             /\ ~IsSpace(Document[Len(Document) - 1])
        ELSE Document = <<"\n">>

\* visible content between an empty message and an empty output
C14_Witness ==
    /\ caller = "render"
    /\ renders # <<>>
    /\ Len(retEntries) = 3
    /\ retEntries[1] = messageEntry(<<>>)
    /\ retEntries[2] = fileEntry(FB, FB)
    /\ retEntries[3] = outputEntry(<<>>)
    /\ Document[1] = BQ

\* C15: a readable File entry, at any position, is in the document as the
\* line of originalPath in one backtick pair, a line of three backticks, the
\* bytes of the file unchanged, three backticks and a newline.
C15_FileBytesVerbatim ==
    Rendered =>
        \A k \in 1..Len(retEntries) :
            Readable(retEntries[k]) =>
                ContainsSub(Document,
                    <<BQ>> \o retEntries[k].originalPath \o <<BQ, "\n">>
                    \o <<BQ, BQ, BQ, "\n">> \o fs[retEntries[k].storagePath]
                    \o <<BQ, BQ, BQ, "\n">>)

\* a file with blank lines at both ends, in the middle and at the end of
\* the sequence, after a file without a final newline
C15_Witness ==
    /\ caller = "render"
    /\ renders # <<>>
    /\ retEntries = << fileEntry(F1, F1), fileEntry(FB, FB), fileEntry(FB, FB) >>
    /\ ContainsSub(Document, <<BQ, BQ, BQ, "\n", "\n", "L", "\n", "\n", BQ, BQ, BQ, "\n">>)
    /\ ContainsSub(Document, <<BQ, BQ, BQ, "\n", "A", BQ, BQ, BQ, "\n">>)

\* ------------------------------------------------------------------------
\* Properties of the producers
\* ------------------------------------------------------------------------

\* the content of the local file path when call number k of
\* executeSubcommand was made, and when main rendered
ContentAtCall(path, k) ==
    IF \E i \in 1..Len(modLog) : modLog[i].path = path /\ modLog[i].calls < k
    THEN NewContent ELSE InitialFiles[path]

ContentAtRender(path) ==
    IF \E i \in 1..Len(modLog) : modLog[i].path = path
    THEN NewContent ELSE InitialFiles[path]

AttachInsertArgs == << ATTACH, F1 \o COMMA, INSERT, F2 >>

\* C16: the document of main shows, for a File entry that attach made of a
\* local file, the content the file has when generateMarkdown runs, also when
\* the file was rewritten after attach returned; a Message entry made by
\* insert has the content the file had when insert ran, also when the file
\* was rewritten afterwards.
C16_FileReadAtRender ==
    (caller = "main" /\ pc = "emit") =>
        /\ \A k \in 1..Len(retEntries) :
              (retEntries[k].kind = "file" /\ retEntries[k].storagePath \in {F1, F2}) =>
                  ContainsSub(markdown,
                      FileFragment(retEntries[k].originalPath,
                                   ContentAtRender(retEntries[k].storagePath)))
        /\ \A k \in 1..Len(dispatched) :
              (dispatched[k].fn = INSERT /\ dispatched[k].err = NIL) =>
                  \A j \in 1..Len(dispatched[k].fnArgs) :
                      dispatched[k].fnArgs[j] \in {F1, F2} =>
                          dispatched[k].entries[j] =
                              messageEntry(ContentAtCall(dispatched[k].fnArgs[j], k))
        /\ (args = AttachInsertArgs /\ modLog = << [path |-> F1, calls |-> 1] >>) =>
              markdown = FileFragment(F1, NewContent) \o <<"\n", "B", "\n">>
        /\ (args = AttachInsertArgs /\ modLog = << [path |-> F2, calls |-> 2] >>) =>
              markdown = FileFragment(F1, <<"A">>) \o <<"\n", "B", "\n">>

\* f1 is rewritten after attach returned and before the render
C16_Witness ==
    /\ caller = "main"
    /\ pc = "emit"
    /\ args = AttachInsertArgs
    /\ modLog = << [path |-> F1, calls |-> 1] >>
    /\ ContainsSub(markdown, <<BQ, BQ, BQ, "\n", "Z", "\n", BQ, BQ, BQ, "\n">>)

RECURSIVE SpaceJoined(_)
SpaceJoined(list) ==
    IF list = <<>> THEN <<>>
    ELSE IF Len(list) = 1 THEN list[1]
    ELSE list[1] \o <<" ">> \o SpaceJoined(Tail(list))

\* C18: every call of say returns no error and exactly one Message entry,
\* whose text is the arguments with single spaces between them (the empty
\* text for no arguments); say "H w" and say "H" "w" return the same entry.
C18_SayJoins ==
    \A k \in 1..Len(dispatched) :
        dispatched[k].fn = SAY =>
            /\ dispatched[k].err = NIL
            /\ ~dispatched[k].panic
            /\ dispatched[k].entries = << messageEntry(SpaceJoined(dispatched[k].fnArgs)) >>
            /\ dispatched[k].segment \in { << SAY, <<"H", " ", "w">> >>, << SAY, <<"H">>, <<"w">> >> }
                  => dispatched[k].entries = << messageEntry(<<"H", " ", "w">>) >>

C18_Witness ==
    /\ args = << SAY, <<"H">>, <<"w">> >>
    /\ Len(dispatched) = 1
    /\ dispatched[1].entries = << messageEntry(<<"H", " ", "w">>) >>

\* a local path (no colon) that names neither a file nor a directory
Local(path) == ~Contains(path, ":")

Exists(path) == path \in DOMAIN InitialFiles \/ IsDir(path)

Missing(path) == Local(path) /\ ~Exists(path)

\* C19: a call of attach with a local path that does not exist returns an
\* error and no entries; when the arguments before it are existing local
\* paths the error is "file does not exist: <path>"; a run of main with such
\* a call writes no output and exits with status 1.
C19_MissingFileFails ==
    \A k \in 1..Len(dispatched) :
        (dispatched[k].fn = ATTACH
         /\ \E j \in 1..Len(dispatched[k].fnArgs) : Missing(dispatched[k].fnArgs[j])) =>
            /\ dispatched[k].err # NIL
            /\ dispatched[k].entries = <<>>
            /\ \A j \in 1..Len(dispatched[k].fnArgs) :
                  (/\ Missing(dispatched[k].fnArgs[j])
                   /\ \A i \in 1..(j - 1) : Local(dispatched[k].fnArgs[i])
                                            /\ Exists(dispatched[k].fnArgs[i]))
                      => dispatched[k].err = <<"file does not exist: ">> \o dispatched[k].fnArgs[j]
            /\ caller = "main" =>
                  /\ ~Emitted
                  /\ pc = "exited" => exitStatus = 1

\* a valid file, then a missing one, in a run of main
C19_Witness ==
    /\ caller = "main"
    /\ args = << ATTACH, F1, NF >>
    /\ Len(dispatched) = 1
    /\ dispatched[1].err = <<"file does not exist: ">> \o NF
    /\ pc = "exited"
    /\ exitStatus = 1

\* the regular, non-hidden files under a directory, in the order of the walk
FilesUnder(dir) ==
    SelectSeq(DirEntries,
              LAMBDA info : /\ ~info.isDir
                            /\ info.name[1] # "."
                            /\ Len(info.path) > Len(dir) + 1
                            /\ SubSeq(info.path, 1, Len(dir) + 1) = dir \o <<"/">>)

\* the entries attach is to return for existing local paths
RECURSIVE ExpectedAttach(_)
ExpectedAttach(paths) ==
    IF paths = <<>> THEN <<>>
    ELSE (IF IsDir(Head(paths))
          THEN [i \in 1..Len(FilesUnder(Head(paths))) |->
                    [kind |-> "file", text |-> <<>>,
                     storagePath |-> FilesUnder(Head(paths))[i].path,
                     originalPath |-> FilesUnder(Head(paths))[i].path]]
          ELSE << [kind |-> "file", text |-> <<>>,
                   storagePath |-> Head(paths), originalPath |-> Head(paths)] >>)
         \o ExpectedAttach(Tail(paths))

ReadableLocal(path) == Local(path) /\ path \in DOMAIN InitialFiles

\* C21: a call of insert that returns no error returns one Message entry per
\* argument, in argument order, each with the whole content of its file as it
\* was when insert ran (for a remote argument, what scp copied); a call with
\* an argument that cannot be read returns an error and no entries, also
\* when arguments before it were read; a call with readable local arguments
\* only returns no error.
C21_InsertContents ==
    \A k \in 1..Len(dispatched) :
        dispatched[k].fn = INSERT =>
            /\ ~dispatched[k].panic
            /\ dispatched[k].err # NIL => dispatched[k].entries = <<>>
            /\ (\E j \in 1..Len(dispatched[k].fnArgs) :
                    Local(dispatched[k].fnArgs[j]) /\ ~ReadableLocal(dispatched[k].fnArgs[j]))
                  => dispatched[k].err # NIL
            /\ (\A j \in 1..Len(dispatched[k].fnArgs) : ReadableLocal(dispatched[k].fnArgs[j]))
                  => dispatched[k].err = NIL
            /\ dispatched[k].err = NIL =>
                  dispatched[k].entries =
                      [j \in 1..Len(dispatched[k].fnArgs) |->
                          [kind |-> "message",
                           text |-> IF Local(dispatched[k].fnArgs[j])
                                    THEN ContentAtCall(dispatched[k].fnArgs[j], k)
                                    ELSE RemoteContent,
                           storagePath |-> <<>>, originalPath |-> <<>>]]

\* two files in one call, the second read first; and a call that fails on
\* its second argument after reading the first
C21_Witness ==
    /\ args = << INSERT, F2, F1 >>
    /\ Len(dispatched) = 1
    /\ dispatched[1].entries = << messageEntry(<<"B", "\n">>), messageEntry(<<"A">>) >>

C21_WitnessFailure ==
    /\ args = << INSERT, F1, NF >>
    /\ Len(dispatched) = 1
    /\ dispatched[1].err # NIL

\* the clipboard has not been written by the run
ClipboardUntouched == pc \in {"process", "processed", "render", "emit", "panic"}

\* C22: every call of paste, whatever its arguments, returns no error and
\* exactly one Message entry whose text is the clipboard text as it is,
\* several lines or empty; the document of a run whose only segment is a
\* paste of the empty clipboard is one newline.
C22_PasteClipboard ==
    /\ \E text \in ClipboardTexts :
          /\ ClipboardUntouched => text = clipboard
          /\ \A k \in 1..Len(dispatched) :
                dispatched[k].fn = PASTE =>
                    /\ dispatched[k].err = NIL
                    /\ ~dispatched[k].panic
                    /\ dispatched[k].entries =
                          << [kind |-> "message", text |-> text,
                              storagePath |-> <<>>, originalPath |-> <<>>] >>
    /\ (caller = "main" /\ pc = "emit" /\ args = << PASTE >> /\ clipboard = <<>>)
          => markdown = <<"\n">>
    /\ (caller = "main" /\ pc = "emit" /\ args = << PASTE >> /\ clipboard # <<>>)
          => markdown = <<"C", "\n", "c", "\n">>

\* the empty clipboard pasted in a run of main, and rendered
C22_Witness ==
    /\ caller = "main"
    /\ pc = "emit"
    /\ args = << PASTE >>
    /\ dispatched[1].entries = << messageEntry(<<>>) >>
    /\ markdown = <<"\n">>

\* C23, as claimed: every call of exec, the one with no arguments included,
\* returns one Output entry with the untrimmed standard output of the
\* command, or a command-failed error and no entries; no call ends the
\* program abnormally.
C23_ExecAlwaysReturns ==
    /\ \A k \in 1..Len(dispatched) :
          dispatched[k].fn = EXEC =>
              /\ ~dispatched[k].panic
              /\ \/ /\ dispatched[k].err = NIL
                    /\ \E r \in ExecResults :
                          r.ok /\ dispatched[k].entries = << outputEntry(r.out) >>
                 \/ /\ dispatched[k].err = <<"command execution failed: ", "exit status 1">>
                    /\ dispatched[k].entries = <<>>
    /\ pc # "panic"
    /\ exitStatus # 2

\* the position of the first colon of a remote argument
FirstColon(arg) ==
    CHOOSE i \in 1..Len(arg) : arg[i] = ":" /\ \A j \in 1..(i - 1) : arg[j] # ":"

HostOf(arg) == SubSeq(arg, 1, FirstColon(arg) - 1)

RemotePathOf(arg) == SubSeq(arg, FirstColon(arg) + 1, Len(arg))

CopyFailed(err) == err # NIL /\ Len(err) > 1 /\ err[1] = "failed to copy remote file: "

NoDirArg(call) == \A j \in 1..Len(call.fnArgs) : ~IsDir(call.fnArgs[j])

\* C24: in a call of attach or insert an argument is remote exactly when it
\* has a colon, and is then split at its first colon into host and path; a
\* call of attach that succeeds has, for a remote argument, a File entry with
\* the argument itself as originalPath and a file of the staging directory,
\* of its own, holding what scp copied, as storagePath, and for a local
\* argument the argument as storagePath; a call that fails returns no entries, and a call
\* with remote arguments only fails with the remote-copy error or not at all.
C24_RemoteArguments ==
    \A k \in 1..Len(dispatched) :
        dispatched[k].fn \in {ATTACH, INSERT} =>
            /\ \A j \in 1..Len(dispatched[k].fnArgs) :
                  ~Local(dispatched[k].fnArgs[j]) =>
                      SplitN2(dispatched[k].fnArgs[j], ":") =
                          << HostOf(dispatched[k].fnArgs[j]), RemotePathOf(dispatched[k].fnArgs[j]) >>
            /\ dispatched[k].err # NIL => dispatched[k].entries = <<>>
            /\ (\A j \in 1..Len(dispatched[k].fnArgs) : ~Local(dispatched[k].fnArgs[j]))
                  => (dispatched[k].err = NIL \/ CopyFailed(dispatched[k].err))
            /\ (dispatched[k].fn = ATTACH /\ dispatched[k].err = NIL /\ NoDirArg(dispatched[k])) =>
                  /\ Len(dispatched[k].entries) = Len(dispatched[k].fnArgs)
                  /\ \A j \in 1..Len(dispatched[k].fnArgs) :
                        /\ dispatched[k].entries[j].kind = "file"
                        /\ dispatched[k].entries[j].originalPath = dispatched[k].fnArgs[j]
                        /\ InTempDir(dispatched[k].entries[j].storagePath)
                              <=> ~Local(dispatched[k].fnArgs[j])
                        /\ Local(dispatched[k].fnArgs[j]) =>
                              dispatched[k].entries[j].storagePath = dispatched[k].fnArgs[j]
                        /\ (~Local(dispatched[k].fnArgs[j]) /\ tempDirExists) =>
                              /\ FileExists(fs, dispatched[k].entries[j].storagePath)
                              /\ fs[dispatched[k].entries[j].storagePath] = RemoteContent
                        /\ ~Local(dispatched[k].fnArgs[j]) =>
                              \A i \in 1..(j - 1) :
                                  dispatched[k].entries[i].storagePath
                                      # dispatched[k].entries[j].storagePath

\* a local file and a remote argument with two colons, staged
C24_Witness ==
    /\ args = << ATTACH, F1, REMOTE2 >>
    /\ Len(dispatched) = 1
    /\ dispatched[1].err = NIL
    /\ dispatched[1].entries[2].originalPath = <<"h", ":", "p", ":", "q">>
    /\ InTempDir(dispatched[1].entries[2].storagePath)

\* ------------------------------------------------------------------------
\* Properties of the errors and of the end of a run
\* ------------------------------------------------------------------------

\* C25, as claimed: a segment whose first token is empty is rejected by the
\* check for an empty segment, before any matching against the registry: no
\* name is matched and no producer is invoked.
C25_EmptyNameRejectedUpstream ==
    \A k \in 1..Len(dispatched) :
        (dispatched[k].segment # <<>> /\ dispatched[k].segment[1] = <<>>) =>
            /\ dispatched[k].fn = NoFn
            /\ dispatched[k].err = <<"no subcommand provided">>

\* C26, as claimed: the error processSubcommands returns is the error of the
\* failing dispatch, unchanged, for a segment closed by a comma as for the
\* final segment.
C26_ErrorUnchanged ==
    (ProcessingOver /\ pc # "panic" /\ retErr # NIL) =>
        /\ dispatched # <<>>
        /\ retErr = dispatched[Len(dispatched)].err

\* the document is at the destination the flags select
Delivered ==
    IF copyToClipboard THEN clipboard = markdown
    ELSE IF outputFile = <<"-">> THEN stdout = << markdown >>
    ELSE FileExists(fs, outputFile) /\ fs[outputFile] = markdown

\* the confirmation of a delivery to the clipboard or to a file (a document
\* written to standard output is its own confirmation)
Confirmed ==
    IF copyToClipboard THEN stdout = << <<"Markdown copied to the clipboard.", "\n">> >>
    ELSE IF outputFile = <<"-">> THEN TRUE
    ELSE stdout = << <<"Markdown written to file: ">> \o outputFile \o <<"\n">> >>

\* C27, as claimed: a run of main that processes tokens ends either with the
\* document delivered, the confirmation printed and status zero, or with an
\* error message and a non-zero status; a run whose write of the output file
\* failed does not end with status zero.
C27_SuccessOrFailure ==
    (caller = "main" /\ ~helpFlag /\ pc = "exited") =>
        \/ exitStatus = 0 /\ Delivered /\ Confirmed /\ stderr = <<>>
        \/ exitStatus # 0 /\ stderr # <<>> /\ ~Emitted

EndsWithComma(token) == token # <<>> /\ token[Len(token)] = ","

\* C28, as claimed: no token of a dispatched segment ends with a comma.
C28_NoTokenEndsWithComma ==
    \A k \in 1..Len(dispatched) :
        \A i \in 1..Len(dispatched[k].segment) :
            ~EndsWithComma(dispatched[k].segment[i])

\* C28, amended: one closing comma is removed from the token that closes a
\* segment, and only one: a token of a dispatched segment ends with a comma
\* only when it is the last of its segment and comes from an argument that,
\* trimmed, is that token followed by one more comma; so say a,, b gives the
\* segments [say a,] and [b], and a token that ends with one comma leaves no
\* comma.
C28_OneCommaRemoved ==
    /\ \A k \in 1..Len(dispatched) :
          \A i \in 1..Len(dispatched[k].segment) :
              EndsWithComma(dispatched[k].segment[i]) =>
                  /\ i = Len(dispatched[k].segment)
                  /\ \E a \in 1..Len(args) :
                        TrimSpace(args[a]) = dispatched[k].segment[i] \o <<",">>
    /\ (ProcessingOver /\ args = << SAY, <<"a", ",", ",">>, <<"b">> >>) =>
          Segments(dispatched) = << << SAY, <<"a", ",">> >>, << <<"b">> >> >>
    /\ (ProcessingOver /\ args = << SAY, <<"a", ",">>, <<"b">> >>) =>
          Segments(dispatched) = << << SAY, <<"a">> >>, << <<"b">> >> >>

C28_Witness ==
    /\ args = << SAY, <<"a", ",", ",">>, <<"b">> >>
    /\ ProcessingOver
    /\ Len(dispatched) = 2
    /\ dispatched[1].entries = << messageEntry(<<"a", ",">>) >>

\* ------------------------------------------------------------------------
\* Properties of the staging directory and of termination
\* ------------------------------------------------------------------------

\* the File entries main is about to render are all there to be read
StagedFilesExist ==
    \A k \in 1..Len(retEntries) :
        (retEntries[k].kind = "file" /\ InTempDir(retEntries[k].storagePath)) =>
            tempDirExists /\ FileExists(fs, retEntries[k].storagePath)

\* a step that deletes the staging directory
DeletesStaging == tempDirExists /\ ~tempDirExists'

\* C29, as claimed: when main renders, the staging directory and the files
\* staged in it exist, and in every run the directory is deleted only after
\* the rendering has finished and the output has been delivered.
C29_StagingOutlivesRender ==
    /\ [](caller = "main" /\ pc \in {"render", "emit"} => StagedFilesExist)
    /\ [][DeletesStaging => (pc = "return" /\ Delivered)]_vars

\* the tokens that close a segment
CommaTokens == { i \in 1..Len(args) : ClosesSegment(args[i]) }

\* the run is over: the process has exited, or processSubcommands has
\* returned to the test that called it
RunOver == pc = "exited" \/ (caller = "test" /\ pc = "processed")

\* C30: a run in which no producer hangs comes to its end, and at most one
\* segment per comma-terminated token plus one final segment is dispatched;
\* once a producer hangs it hangs for ever, no further segment is dispatched,
\* nothing is emitted and the process does not exit.
C30_EndsUnlessHung ==
    /\ <>(hung \/ RunOver \/ caller = "render")
    /\ [](Len(dispatched) <= Cardinality(CommaTokens) + 1)
    /\ [][hung => (hung' /\ dispatched' = dispatched)]_vars
    /\ [](hung => (~Emitted /\ pc = "process" /\ exitStatus = -1))

\* the first of two segments hangs: the second is never dispatched
C30_Witness ==
    /\ caller = "main"
    /\ args = << EXEC, <<"e">>, COMMA, SAY, <<"a">> >>
    /\ hung
    /\ argIndex = 3
    /\ dispatched = <<>>

====
